---- MODULE Spec2Model ----
(***************************************************************************)
(* Model of the multi-match radix router, src/radix.go (the revision that  *)
(* starts at line 184: Node with parent, nodeSize and three child maps).   *)
(*                                                                         *)
(* A string is a sequence of one-character strings, so that HasPrefix and  *)
(* segment[1:] are computed and not looked up.  A path is a sequence of    *)
(* strings.  A *Node is the sequence of stored segments that leads to it   *)
(* from the root; the root is the empty sequence.  A second node made for  *)
(* a place that has one gets a marked address (ChildAddr).                 *)
(*                                                                         *)
(* Spec       the calls of one goroutine, one after the other              *)
(* SpecAnon   the same, on patterns with nameless ':' and '*' segments     *)
(* SpecParams Params.Get on its own                                        *)
(* SpecRace   the Adds of two goroutines and the Gets of a reader,         *)
(*            interleaved at the reads and writes of the nodes             *)
(***************************************************************************)
EXTENDS Integers, Sequences, FiniteSets, TLC

VARIABLES
    heap,      \* the nodes, by address: those RadixTree.root reaches and those
               \* a call in flight has made and not linked yet
    lastOp,    \* the last call on the tree and what it returned
    added,     \* <<pattern, handler, handle>> of the routes registered now
    nAdded,    \* Add calls that returned no error
    nDeleted,  \* Delete calls that returned no error
    calls      \* per goroutine, the Add call it is in and how far the call is

vars == <<heap, lastOp, added, nAdded, nDeleted, calls>>

(* ----------------------------- bounds --------------------------------- *)

\* routes that may be registered at the same time
MaxRoutes == 3

\* longest query handed to Get
MaxQueryLen == 4

(* ------------------------- strings and inputs ------------------------- *)

HasPrefix(s, c) == Len(s) > 0 /\ s[1] = c

a == <<"a">>
b == <<"b">>
px == <<":", "x">>
py == <<":", "y">>
ww == <<"*", "w">>
wv == <<"*", "v">>

\* the patterns handed to Add: the root route, literals with a shared
\* prefix, parameter siblings, a wildcard beside them, a wildcard below a
\* literal, and a group of siblings in fourth position
ValidPatterns ==
    { << >>, <<a>>, <<a, b>>, <<px>>, <<py>>, <<ww>>, <<a, ww>>,
      <<px, px, px, py>>, <<px, px, px, ww>>, <<px, px, px, wv>> }

\* a wildcard followed by a literal, a parameter, a wildcard
InvalidPatterns ==
    { <<a, ww, b>>, <<ww, px>>, <<ww, wv>> }

Patterns == ValidPatterns \cup InvalidPatterns

\* Handlers are opaque to the tree.  A caller registers a pattern with a
\* handler of its own, and tries a pattern that is already registered with
\* another one.
FirstHandler(path) == <<"h1">> \o path
SecondHandler(path) == <<"h2">> \o path

QuerySegs == {a, b}

RECURSIVE SeqsUpTo(_, _)
SeqsUpTo(S, n) ==
    IF n = 0 THEN { << >> }
    ELSE LET shorter == SeqsUpTo(S, n - 1)
         IN  shorter \cup { Append(q, s) : q \in { r \in shorter : Len(r) = n - 1 }, s \in S }

\* the paths handed to Get: every path of up to two segments, and the longer
\* ones that go on repeating their first two segments
Queries ==
    { q \in SeqsUpTo(QuerySegs, MaxQueryLen) : \A i \in 3..Len(q) : q[i] = q[i - 2] }

\* the paths handed to Delete
DeletePaths == { <<a>>, <<px>>, <<px, px, px, ww>>, <<b>> }

(* ------------------------------ Node ---------------------------------- *)

Static == 0
ParamNode == 1
Wildcard == 2

\* a nil Handler, a nil *NodeWrapper, a nil error
NilHandler == << >>
NilNode == <<"nil">>
NoError == "ok"
ErrDuplicate == "handler already exists for this path"
ErrWildcardNotLast == "wildcard must be the last segment"
ErrNotImplemented == "delete operation is not implemented"

\* a map without entries (a nil map reads the same way)
EmptyMap == << >>

MapPut(m, k, v) == [x \in (DOMAIN m) \cup {k} |-> IF x = k THEN v ELSE m[x]]

root == << >>

Node(parent, nodeType, path, paramName, isWildcard, handler) ==
    [ parent            |-> parent,
      nodeSize          |-> 0,
      nodeType          |-> nodeType,
      path              |-> path,
      static_children   |-> EmptyMap,
      params_children   |-> EmptyMap,
      wildcard_children |-> EmptyMap,
      handler           |-> handler,
      paramName         |-> paramName,
      isWildcard        |-> isWildcard ]

NewRadixTree ==
    (root :> Node(NilNode, Static, << >>, << >>, FALSE, NilHandler))

\* allocation: the address of a node created under `node` for `segment` is
\* one no node of the heap has; the first node made for a place gets the
\* sequence of stored segments that leads to it
RECURSIVE ChildAddr(_, _, _)
ChildAddr(h, node, segment) ==
    IF Append(node, segment) \notin DOMAIN h
    THEN Append(node, segment)
    ELSE ChildAddr(h, node, <<"#">> \o segment)

(* ---------------------------- insertion ------------------------------- *)

Ret(h, nw, err) == [heap |-> h, nw |-> nw, err |-> err]

RECURSIVE addRoute(_, _, _, _)
RECURSIVE addStaticChild(_, _, _, _, _)
RECURSIVE addParamChild(_, _, _, _, _)

\* addWildcardChild without the test that the wildcard is the last segment
addWildcardChildAnywhere(h, node, segment, remaining, handler) ==
    LET paramName == Tail(segment)
        child == Node(node, Wildcard, segment, paramName, TRUE, handler)
        addr == ChildAddr(h, node, segment)
    IN  IF paramName \in DOMAIN h[node].wildcard_children
        THEN Ret(h, NilNode, ErrDuplicate)
        ELSE Ret([MapPut(h, addr, child) EXCEPT ![node].wildcard_children =
                                                  MapPut(@, paramName, addr)],
                 addr, NoError)

\* addWildcardChild that stores the segment without its sigil
addWildcardChildBare(h, node, segment, remaining, handler) ==
    IF Len(remaining) > 0
    THEN Ret(h, NilNode, ErrWildcardNotLast)
    ELSE LET paramName == Tail(segment)
             child == Node(node, Wildcard, paramName, paramName, TRUE, handler)
             addr == ChildAddr(h, node, segment)
         IN  IF paramName \in DOMAIN h[node].wildcard_children
             THEN Ret(h, NilNode, ErrDuplicate)
             ELSE Ret([MapPut(h, addr, child) EXCEPT ![node].wildcard_children =
                                                       MapPut(@, paramName, addr)],
                      addr, NoError)

addWildcardChild(h, node, segment, remaining, handler) ==
    IF Len(remaining) > 0
    THEN Ret(h, NilNode, ErrWildcardNotLast)
    ELSE LET paramName == Tail(segment)
             child == Node(node, Wildcard, segment, paramName, TRUE, handler)
             addr == ChildAddr(h, node, segment)
         IN  IF paramName \in DOMAIN h[node].wildcard_children
             THEN Ret(h, NilNode, ErrDuplicate)
             ELSE Ret([MapPut(h, addr, child) EXCEPT ![node].wildcard_children =
                                                       MapPut(@, paramName, addr)],
                      addr, NoError)

\* addStaticChild that links the new child before it goes on
addStaticChildLinkFirst(h, node, segment, remaining, handler) ==
    IF segment \in DOMAIN h[node].static_children
    THEN addRoute(h, h[node].static_children[segment], remaining, handler)
    ELSE LET addr == ChildAddr(h, node, segment)
             child == Node(node, Static, segment, << >>, FALSE, NilHandler)
             linked == [MapPut(h, addr, child) EXCEPT ![node].static_children =
                                                        MapPut(@, segment, addr)]
         IN  addRoute(linked, addr, remaining, handler)

\* addStaticChild that makes a new child also where one exists
addStaticChildFresh(h, node, segment, remaining, handler) ==
    LET addr == ChildAddr(h, node, segment)
        child == Node(node, Static, segment, << >>, FALSE, NilHandler)
        r == addRoute(MapPut(h, addr, child), addr, remaining, handler)
    IN  IF r.err # NoError
        THEN Ret(r.heap, NilNode, r.err)
        ELSE Ret([r.heap EXCEPT ![node].static_children =
                                    MapPut(@, segment, addr)],
                 r.nw, NoError)

addStaticChild(h, node, segment, remaining, handler) ==
    IF segment \in DOMAIN h[node].static_children
    THEN addRoute(h, h[node].static_children[segment], remaining, handler)
    ELSE LET addr == ChildAddr(h, node, segment)
             child == Node(node, Static, segment, << >>, FALSE, NilHandler)
             r == addRoute(MapPut(h, addr, child), addr, remaining, handler)
         IN  IF r.err # NoError
             THEN Ret(r.heap, NilNode, r.err)
             ELSE Ret([r.heap EXCEPT ![node].static_children =
                                         MapPut(@, segment, addr)],
                      r.nw, NoError)

\* addParamChild that refuses a parameter without name
addParamChildNamed(h, node, segment, remaining, handler) ==
    LET segmentParam == Tail(segment)
        found == { k \in DOMAIN h[node].params_children :
                     h[h[node].params_children[k]].paramName = segmentParam }
    IN  IF segmentParam = << >>
        THEN Ret(h, NilNode, "parameter name cannot be empty")
        ELSE IF found # {}
        THEN addRoute(h, h[node].params_children[CHOOSE k \in found : TRUE],
                      remaining, handler)
        ELSE LET addr == ChildAddr(h, node, segment)
                 child == Node(node, ParamNode, segment, segmentParam, FALSE, NilHandler)
                 r == addRoute(MapPut(h, addr, child), addr, remaining, handler)
             IN  IF r.err # NoError
                 THEN Ret(r.heap, NilNode, r.err)
                 ELSE Ret([r.heap EXCEPT ![node].params_children =
                                             MapPut(@, segmentParam, addr)],
                          r.nw, NoError)

addParamChild(h, node, segment, remaining, handler) ==
    LET segmentParam == Tail(segment)
        found == { k \in DOMAIN h[node].params_children :
                     h[h[node].params_children[k]].paramName = segmentParam }
    IN  IF found # {}
        THEN addRoute(h, h[node].params_children[CHOOSE k \in found : TRUE],
                      remaining, handler)
        ELSE LET addr == ChildAddr(h, node, segment)
                 child == Node(node, ParamNode, segment, segmentParam, FALSE, NilHandler)
                 r == addRoute(MapPut(h, addr, child), addr, remaining, handler)
             IN  IF r.err # NoError
                 THEN Ret(r.heap, NilNode, r.err)
                 ELSE IF segmentParam \in DOMAIN r.heap[node].params_children
                 THEN Ret(r.heap, NilNode, ErrDuplicate)
                 ELSE Ret([r.heap EXCEPT ![node].params_children =
                                             MapPut(@, segmentParam, addr)],
                          r.nw, NoError)

\* addRoute that binds the handler without looking for an earlier one
addRouteOverwrite(h, node, segments, handler) ==
    IF Len(segments) = 0
    THEN Ret([h EXCEPT ![node].handler = handler], node, NoError)
    ELSE LET segment == Head(segments)
             remaining == Tail(segments)
             r == IF HasPrefix(segment, "*")
                  THEN addWildcardChild(h, node, segment, remaining, handler)
                  ELSE IF HasPrefix(segment, ":")
                  THEN addParamChild(h, node, segment, remaining, handler)
                  ELSE addStaticChild(h, node, segment, remaining, handler)
         IN  IF r.err = NoError
             THEN Ret([r.heap EXCEPT ![node].nodeSize = @ + 1], r.nw, NoError)
             ELSE r

addRoute(h, node, segments, handler) ==
    IF Len(segments) = 0
    THEN IF h[node].handler # NilHandler
         THEN Ret(h, NilNode, ErrDuplicate)
         ELSE Ret([h EXCEPT ![node].handler = handler], node, NoError)
    ELSE LET segment == Head(segments)
             remaining == Tail(segments)
             r == IF HasPrefix(segment, "*")
                  THEN addWildcardChild(h, node, segment, remaining, handler)
                  ELSE IF HasPrefix(segment, ":")
                  THEN addParamChild(h, node, segment, remaining, handler)
                  ELSE addStaticChild(h, node, segment, remaining, handler)
         IN  IF r.err = NoError
             THEN Ret([r.heap EXCEPT ![node].nodeSize = @ + 1], r.nw, NoError)
             ELSE r

(* ------------------------------ slices -------------------------------- *)

\* A Params value is a slice header over a backing array of RouteParam;
\* mem is the sequence of the backing arrays allocated so far.
RouteParam(key, values) == [Key |-> key, Values |-> values]

ZeroRouteParam == RouteParam(<< >>, << >>)

NilParams == [arr |-> 0, len |-> 0, cap |-> 0]

\* capacity the runtime gives a slice grown to newLen (growslice, cap < 256;
\* for the 40-byte RouteParam the size classes leave 1, 2, 4, 8 as they are)
GrowCap(oldCap, newLen) ==
    IF newLen > 2 * oldCap THEN newLen ELSE 2 * oldCap

\* append(s, x): in place when the backing array has room, a copy otherwise
append(mem, s, x) ==
    IF s.len < s.cap
    THEN [mem |-> [mem EXCEPT ![s.arr][s.len + 1] = x],
          slice |-> [s EXCEPT !.len = s.len + 1]]
    ELSE LET newCap == GrowCap(s.cap, s.len + 1)
             array == [i \in 1..newCap |->
                          IF i <= s.len THEN mem[s.arr][i]
                          ELSE IF i = s.len + 1 THEN x
                          ELSE ZeroRouteParam]
         IN  [mem |-> Append(mem, array),
              slice |-> [arr |-> Len(mem) + 1, len |-> s.len + 1, cap |-> newCap]]

\* the elements a slice header shows
Elems(mem, s) == IF s.len = 0 THEN << >> ELSE SubSeq(mem[s.arr], 1, s.len)

(* ------------------------------ lookup -------------------------------- *)

\* the orders in which a range over a map with these keys can run
RangeOrders(keys) ==
    { o \in [1..Cardinality(keys) -> keys] :
        \A i, j \in 1..Cardinality(keys) : i # j => o[i] # o[j] }

Out(routes, mem) == [routes |-> routes, mem |-> mem]

RECURSIVE getValue(_, _, _, _, _)
RECURSIVE rangeParamsChildren(_, _, _, _, _, _, _)
RECURSIVE rangeWildcardChildren(_, _, _, _, _, _, _)

\* the loop over node.params_children that returns at the first child with a match
RECURSIVE rangeParamsFirstMatch(_, _, _, _, _, _, _)
rangeParamsFirstMatch(h, mem, node, segments, params, order, routes) ==
    IF order = << >>
    THEN { Out(routes, mem) }
    ELSE LET child == h[node].params_children[Head(order)]
             ap == append(mem, params,
                          RouteParam(h[child].paramName, SubSeq(segments, 1, 1)))
         IN  UNION { IF o.routes # << >>
                     THEN { Out(routes \o o.routes, o.mem) }
                     ELSE rangeParamsFirstMatch(h, o.mem, node, segments, params,
                                                Tail(order), routes) :
                     o \in getValue(h, ap.mem, child, Tail(segments), ap.slice) }

\* the loop over node.params_children, in the given order
rangeParamsChildren(h, mem, node, segments, params, order, routes) ==
    IF order = << >>
    THEN { Out(routes, mem) }
    ELSE LET child == h[node].params_children[Head(order)]
             ap == append(mem, params,
                          RouteParam(h[child].paramName, SubSeq(segments, 1, 1)))
         IN  UNION { rangeParamsChildren(h, o.mem, node, segments, params,
                                         Tail(order), routes \o o.routes) :
                     o \in getValue(h, ap.mem, child, Tail(segments), ap.slice) }

\* the loop over node.wildcard_children that puts its routes in front
RECURSIVE rangeWildcardChildrenFront(_, _, _, _, _, _, _)
rangeWildcardChildrenFront(h, mem, node, segments, params, order, routes) ==
    IF order = << >>
    THEN Out(routes, mem)
    ELSE LET child == h[node].wildcard_children[Head(order)]
         IN  IF h[child].handler # NilHandler
             THEN LET ap == append(mem, params,
                                   RouteParam(h[child].paramName, segments))
                  IN  rangeWildcardChildrenFront(h, ap.mem, node, segments, params, Tail(order),
                          <<[Handler |-> h[child].handler, Params |-> ap.slice]>> \o routes)
             ELSE rangeWildcardChildrenFront(h, mem, node, segments, params, Tail(order), routes)

\* the loop over node.wildcard_children, in the given order
rangeWildcardChildren(h, mem, node, segments, params, order, routes) ==
    IF order = << >>
    THEN Out(routes, mem)
    ELSE LET child == h[node].wildcard_children[Head(order)]
         IN  IF h[child].handler # NilHandler
             THEN LET ap == append(mem, params,
                                   RouteParam(h[child].paramName, segments))
                  IN  rangeWildcardChildren(h, ap.mem, node, segments, params, Tail(order),
                          Append(routes, [Handler |-> h[child].handler, Params |-> ap.slice]))
             ELSE rangeWildcardChildren(h, mem, node, segments, params, Tail(order), routes)

\* every outcome getValue can have: the routes (Params as slice headers) and
\* the backing arrays they point into
\* getValue that returns the node the path ends at, handler or not
getValueAnyNode(h, mem, node, segments, params) ==
    IF Len(segments) = 0
    THEN { Out(<<[Handler |-> h[node].handler, Params |-> params]>>, mem) }
    ELSE LET segment == Head(segments)
             remaining == Tail(segments)
             afterStatic ==
                 IF segment \in DOMAIN h[node].static_children
                 THEN getValue(h, mem, h[node].static_children[segment], remaining, params)
                 ELSE { Out(<< >>, mem) }
             afterParams ==
                 UNION { rangeParamsChildren(h, o.mem, node, segments, params, order, o.routes) :
                         o \in afterStatic,
                         order \in RangeOrders(DOMAIN h[node].params_children) }
         IN  { rangeWildcardChildren(h, o.mem, node, segments, params, order, o.routes) :
               o \in afterParams,
               order \in RangeOrders(DOMAIN h[node].wildcard_children) }

getValue(h, mem, node, segments, params) ==
    IF Len(segments) = 0
    THEN IF h[node].handler # NilHandler
         THEN { Out(<<[Handler |-> h[node].handler, Params |-> params]>>, mem) }
         ELSE { Out(<< >>, mem) }
    ELSE LET segment == Head(segments)
             remaining == Tail(segments)
             afterStatic ==
                 IF segment \in DOMAIN h[node].static_children
                 THEN getValue(h, mem, h[node].static_children[segment], remaining, params)
                 ELSE { Out(<< >>, mem) }
             afterParams ==
                 UNION { rangeParamsChildren(h, o.mem, node, segments, params, order, o.routes) :
                         o \in afterStatic,
                         order \in RangeOrders(DOMAIN h[node].params_children) }
         IN  { rangeWildcardChildren(h, o.mem, node, segments, params, order, o.routes) :
               o \in afterParams,
               order \in RangeOrders(DOMAIN h[node].wildcard_children) }

\* what the caller reads in a returned Routes value
Routes(o) ==
    [i \in 1..Len(o.routes) |->
        [Handler |-> o.routes[i].Handler, Params |-> Elems(o.mem, o.routes[i].Params)]]

\* every value Get(path) can return on tree h
GetResults(h, path) == { Routes(o) : o \in getValue(h, << >>, root, path, NilParams) }

(* ----------------------------- reachability --------------------------- *)

Children(h, n) ==
    { h[n].static_children[k] : k \in DOMAIN h[n].static_children }
        \cup { h[n].params_children[k] : k \in DOMAIN h[n].params_children }
        \cup { h[n].wildcard_children[k] : k \in DOMAIN h[n].wildcard_children }

RECURSIVE Reachable(_, _)
Reachable(h, n) == {n} \cup UNION { Reachable(h, c) : c \in Children(h, n) }

\* nodes no longer reachable from the root are reclaimed
Collect(h) == [n \in Reachable(h, root) |-> h[n]]

(* ---------------------------- node handles ---------------------------- *)

\* a NodeWrapper is the address of its node
Root == root

PathName(h, nw) == h[nw].path

Parent(h, nw) == [nw |-> h[nw].parent, ok |-> h[nw].parent # NilNode]

Equal(nw, w) == nw = w

\* NodeWrapper.Size
NodeSize(h, nw) == h[nw].nodeSize

\* the stored texts from below the root down to the node, collected along
\* the parent links
RECURSIVE Path(_, _)
Path(h, nw) ==
    IF ~Parent(h, nw).ok
    THEN << >>
    ELSE Append(Path(h, Parent(h, nw).nw), PathName(h, nw))

(* --------------------------- the operations --------------------------- *)

Size(h) == h[root].nodeSize

\* the goroutines that write to the tree
Writers == {"w1", "w2"}

Idle == [pc |-> "idle"]
Done == [pc |-> "done"]

Init ==
    /\ heap = NewRadixTree
    /\ lastOp = [op |-> "New"]
    /\ added = {}
    /\ nAdded = 0
    /\ nDeleted = 0
    /\ calls = [w \in Writers |-> Idle]

\* a call Add(path, handler)
AddPath(path) ==
    LET handler == IF path \in { e[1] : e \in added }
                   THEN SecondHandler(path) ELSE FirstHandler(path)
        r == addRoute(heap, root, path, handler)
    IN  /\ nAdded - nDeleted < MaxRoutes \/ r.err # NoError
        /\ heap' = Collect(r.heap)
        /\ lastOp' = [op |-> "Add", path |-> path, handler |-> handler,
                      nw |-> r.nw, err |-> r.err]
        /\ added' = IF r.err = NoError THEN added \cup {<<path, handler, r.nw>>} ELSE added
        /\ nAdded' = IF r.err = NoError THEN nAdded + 1 ELSE nAdded
        /\ UNCHANGED <<nDeleted, calls>>

Add == \E path \in Patterns : AddPath(path)

\* a Get that makes and links the literal child it does not find at the root
GetMaking ==
    \E path \in Queries :
        \E routes \in GetResults(heap, path) :
            /\ lastOp' = [op |-> "Get", path |-> path, routes |-> routes]
            /\ heap' = IF path # << >> /\ path[1] \notin DOMAIN heap[root].static_children
                       THEN LET addr == ChildAddr(heap, root, path[1])
                            IN  [MapPut(heap, addr,
                                        Node(root, Static, path[1], << >>, FALSE, NilHandler))
                                   EXCEPT ![root].static_children = MapPut(@, path[1], addr)]
                       ELSE heap
            /\ UNCHANGED <<added, nAdded, nDeleted, calls>>

Get ==
    \E path \in Queries :
        \E routes \in GetResults(heap, path) :
            /\ lastOp' = [op |-> "Get", path |-> path, routes |-> routes]
            /\ UNCHANGED <<heap, added, nAdded, nDeleted, calls>>

\* Delete returns its error without looking at the tree
DeleteResult(h, path) == [heap |-> h, err |-> ErrNotImplemented]

Delete ==
    \E path \in DeletePaths :
        LET r == DeleteResult(heap, path)
        IN  /\ heap' = Collect(r.heap)
            /\ lastOp' = [op |-> "Delete", path |-> path, err |-> r.err]
            /\ added' = IF r.err = NoError
                        THEN { e \in added : e[1] # path } ELSE added
            /\ nDeleted' = IF r.err = NoError THEN nDeleted + 1 ELSE nDeleted
            /\ UNCHANGED <<nAdded, calls>>

SizeCall ==
    /\ lastOp' = [op |-> "Size", size |-> Size(heap)]
    /\ UNCHANGED <<heap, added, nAdded, nDeleted, calls>>

Next == Add \/ Get \/ Delete \/ SizeCall

Spec == Init /\ [][Next]_vars

(* ------------------- patterns with nameless segments ------------------ *)

\* ":" and "*" with no name after the sigil
pe == <<":">>
we == <<"*">>

AnonPatterns ==
    { <<pe>>, <<we>>, <<a, pe>>, <<a, we>>, <<pe, pe>>, <<pe, we>>, <<px>>, <<ww>> }

AddAnon == \E path \in AnonPatterns : AddPath(path)

NextAnon == AddAnon \/ Get \/ SizeCall

SpecAnon == Init /\ [][NextAnon]_vars

(* ------------------------- Params.Get alone --------------------------- *)

MaxParams == 3

ParamKeys == { <<"x">>, <<"y">> }
ParamNames == ParamKeys \cup { <<"z">> }
ParamValues == { <<a>>, <<b>> }

\* the parameter lists Params.Get is applied to
ParamsInputs ==
    SeqsUpTo({ RouteParam(k, v) : k \in ParamKeys, v \in ParamValues }, MaxParams)

NilValues == << >>

\* Params.Get that keeps looking after the first binding with the key
RECURSIVE ParamsGetLast(_, _)
ParamsGetLast(ps, name) ==
    IF ps = << >>
    THEN [values |-> NilValues, found |-> FALSE]
    ELSE IF ps[Len(ps)].Key = name
    THEN [values |-> ps[Len(ps)].Values, found |-> TRUE]
    ELSE ParamsGetLast(SubSeq(ps, 1, Len(ps) - 1), name)

RECURSIVE ParamsGet(_, _)
ParamsGet(ps, name) ==
    IF ps = << >>
    THEN [values |-> NilValues, found |-> FALSE]
    ELSE IF Head(ps).Key = name
    THEN [values |-> Head(ps).Values, found |-> TRUE]
    ELSE ParamsGet(Tail(ps), name)

InitParams ==
    /\ heap = NewRadixTree
    /\ lastOp \in { [op |-> "Params", params |-> ps] : ps \in ParamsInputs }
    /\ added = {}
    /\ nAdded = 0
    /\ nDeleted = 0
    /\ calls = [w \in Writers |-> Idle]

ParamsGetCall ==
    /\ lastOp.op \in {"Params", "Params.Get"}
    /\ \E name \in ParamNames :
          LET r == ParamsGet(lastOp.params, name)
          IN  lastOp' = [op |-> "Params.Get", params |-> lastOp.params,
                         name |-> name, values |-> r.values, found |-> r.found]
    /\ UNCHANGED <<heap, added, nAdded, nDeleted, calls>>

NextParams == ParamsGetCall

SpecParams == InitParams /\ [][NextParams]_vars

(* ------------------- Add and Get in several goroutines ---------------- *)

(***************************************************************************)
(* No lock guards the tree, so the calls of different goroutines           *)
(* interleave at the reads and writes of the nodes.  An Add in flight is   *)
(* its stack: the nodes addRoute went through (chain), whether the call    *)
(* made the child at each level (made), and the statement it is at (pc):   *)
(*   find    the lookup of the child in addStaticChild / addParamChild     *)
(*   check   the test of node.handler at the end of the path               *)
(*   bind    node.handler = handler                                        *)
(*   wcheck  the tests of addWildcardChild                                 *)
(*   wlink   the write to node.wildcard_children                           *)
(*   link    the write to node.static_children / node.params_children      *)
(*   count   node.nodeSize.Add(1)                                          *)
(*   return  Add returns to its caller                                     *)
(* Every goroutine makes one call.                                         *)
(***************************************************************************)

RacePatterns == { << >>, <<a>>, <<a, b>>, <<px>>, <<a, px>>, <<ww>> }

RaceQueries == { q \in Queries : Len(q) <= 2 }

\* the handler a goroutine registers
RaceHandler(w, path) == IF w = "w1" THEN FirstHandler(path) ELSE SecondHandler(path)

InFlight(w) == calls[w].pc \notin {"idle", "done"}

\* the statement addRoute starts with for segment i of the path
PcAt(path, i) ==
    IF i > Len(path) THEN "check"
    ELSE IF HasPrefix(path[i], "*") THEN "wcheck"
    ELSE "find"

\* the callee returned without error to addRoute at level k
Up(c, k) ==
    IF k = 0
    THEN [c EXCEPT !.pc = "return"]
    ELSE [c EXCEPT !.i = k, !.pc = IF c.made[k] THEN "link" ELSE "count"]

\* an error goes up to the caller of Add: no frame links or counts
Fail(c, err) == [c EXCEPT !.pc = "return", !.err = err, !.nw = NilNode]

StartAdd(w) ==
    /\ calls[w] = Idle
    /\ \E path \in RacePatterns :
          calls' = [calls EXCEPT ![w] =
                       [pc |-> PcAt(path, 1), path |-> path,
                        handler |-> RaceHandler(w, path), i |-> 1,
                        chain |-> <<root>>, made |-> << >>,
                        nw |-> NilNode, err |-> NoError]]
    /\ UNCHANGED <<heap, lastOp, added, nAdded, nDeleted>>

Find(w) ==
    LET c == calls[w]
        node == c.chain[c.i]
        segment == c.path[c.i]
        isParam == HasPrefix(segment, ":")
        found == IF isParam
                 THEN { heap[node].params_children[k] :
                          k \in { k \in DOMAIN heap[node].params_children :
                                    heap[heap[node].params_children[k]].paramName = Tail(segment) } }
                 ELSE { heap[node].static_children[k] :
                          k \in DOMAIN heap[node].static_children \cap {segment} }
        addr == ChildAddr(heap, node, segment)
        child == IF isParam
                 THEN Node(node, ParamNode, segment, Tail(segment), FALSE, NilHandler)
                 ELSE Node(node, Static, segment, << >>, FALSE, NilHandler)
    IN  /\ c.pc = "find"
        /\ IF found # {}
           THEN /\ calls' = [calls EXCEPT ![w] =
                               [c EXCEPT !.chain = Append(@, CHOOSE n \in found : TRUE),
                                         !.made = Append(@, FALSE),
                                         !.i = @ + 1,
                                         !.pc = PcAt(c.path, c.i + 1)]]
                /\ UNCHANGED heap
           ELSE /\ calls' = [calls EXCEPT ![w] =
                               [c EXCEPT !.chain = Append(@, addr),
                                         !.made = Append(@, TRUE),
                                         !.i = @ + 1,
                                         !.pc = PcAt(c.path, c.i + 1)]]
                /\ heap' = MapPut(heap, addr, child)
        /\ UNCHANGED <<lastOp, added, nAdded, nDeleted>>

CheckHandler(w) ==
    LET c == calls[w]
        node == c.chain[c.i]
    IN  /\ c.pc = "check"
        /\ calls' = [calls EXCEPT ![w] =
                        IF heap[node].handler # NilHandler
                        THEN Fail(c, ErrDuplicate)
                        ELSE [c EXCEPT !.pc = "bind"]]
        /\ UNCHANGED <<heap, lastOp, added, nAdded, nDeleted>>

BindHandler(w) ==
    LET c == calls[w]
        node == c.chain[c.i]
    IN  /\ c.pc = "bind"
        /\ heap' = [heap EXCEPT ![node].handler = c.handler]
        /\ calls' = [calls EXCEPT ![w] = Up([c EXCEPT !.nw = node], c.i - 1)]
        /\ UNCHANGED <<lastOp, added, nAdded, nDeleted>>

CheckWildcard(w) ==
    LET c == calls[w]
        node == c.chain[c.i]
        paramName == Tail(c.path[c.i])
    IN  /\ c.pc = "wcheck"
        /\ calls' = [calls EXCEPT ![w] =
                        IF c.i < Len(c.path)
                        THEN Fail(c, ErrWildcardNotLast)
                        ELSE IF paramName \in DOMAIN heap[node].wildcard_children
                        THEN Fail(c, ErrDuplicate)
                        ELSE [c EXCEPT !.pc = "wlink"]]
        /\ UNCHANGED <<heap, lastOp, added, nAdded, nDeleted>>

LinkWildcard(w) ==
    LET c == calls[w]
        node == c.chain[c.i]
        segment == c.path[c.i]
        paramName == Tail(segment)
        addr == ChildAddr(heap, node, segment)
        child == Node(node, Wildcard, segment, paramName, TRUE, c.handler)
    IN  /\ c.pc = "wlink"
        /\ heap' = [MapPut(heap, addr, child) EXCEPT ![node].wildcard_children =
                                                       MapPut(@, paramName, addr)]
        /\ calls' = [calls EXCEPT ![w] =
                        [c EXCEPT !.chain = Append(@, addr), !.made = Append(@, TRUE),
                                  !.nw = addr, !.pc = "count"]]
        /\ UNCHANGED <<lastOp, added, nAdded, nDeleted>>

Link(w) ==
    LET c == calls[w]
        node == c.chain[c.i]
        child == c.chain[c.i + 1]
        segment == c.path[c.i]
    IN  /\ c.pc = "link"
        /\ IF HasPrefix(segment, ":")
           THEN IF Tail(segment) \in DOMAIN heap[node].params_children
                THEN /\ calls' = [calls EXCEPT ![w] = Fail(c, ErrDuplicate)]
                     /\ UNCHANGED heap
                ELSE /\ heap' = [heap EXCEPT ![node].params_children =
                                                MapPut(@, Tail(segment), child)]
                     /\ calls' = [calls EXCEPT ![w] = [c EXCEPT !.pc = "count"]]
           ELSE /\ heap' = [heap EXCEPT ![node].static_children =
                                           MapPut(@, segment, child)]
                /\ calls' = [calls EXCEPT ![w] = [c EXCEPT !.pc = "count"]]
        /\ UNCHANGED <<lastOp, added, nAdded, nDeleted>>

Count(w) ==
    LET c == calls[w]
        node == c.chain[c.i]
    IN  /\ c.pc = "count"
        /\ heap' = [heap EXCEPT ![node].nodeSize = @ + 1]
        /\ calls' = [calls EXCEPT ![w] = Up(c, c.i - 1)]
        /\ UNCHANGED <<lastOp, added, nAdded, nDeleted>>

Return(w) ==
    LET c == calls[w]
    IN  /\ c.pc = "return"
        /\ calls' = [calls EXCEPT ![w] = Done]
        /\ lastOp' = [op |-> "Add", path |-> c.path, handler |-> c.handler,
                      nw |-> c.nw, err |-> c.err]
        /\ added' = IF c.err = NoError
                    THEN added \cup {<<c.path, c.handler, c.nw>>} ELSE added
        /\ nAdded' = IF c.err = NoError THEN nAdded + 1 ELSE nAdded
        /\ UNCHANGED <<heap, nDeleted>>

\* the nodes the root reaches that were made by calls that have not returned
MadeInFlight ==
    Reachable(heap, root) \cap
    UNION { { calls[w].chain[k + 1] : k \in { k \in 1..Len(calls[w].made) : calls[w].made[k] } } :
            w \in { w \in Writers : InFlight(w) } }

\* what a reader that is not ordered after the writes of a node's composite
\* literal may read in the nodes of `stale`: the zero values of allocation
StaleView(h, stale) ==
    [n \in DOMAIN h |->
        IF n \in stale
        THEN [h[n] EXCEPT !.parent = NilNode, !.nodeType = Static, !.path = << >>,
                          !.paramName = << >>, !.isWildcard = FALSE]
        ELSE h[n]]

\* a Get in a reader goroutine while an Add is in flight
RaceGet ==
    /\ \E w \in Writers : InFlight(w)
    /\ \E path \in RaceQueries, stale \in SUBSET MadeInFlight :
          \E routes \in GetResults(StaleView(heap, stale), path) :
              lastOp' = [op |-> "Get", path |-> path, routes |-> routes]
    /\ UNCHANGED <<heap, added, nAdded, nDeleted, calls>>

NextRace ==
    \/ \E w \in Writers : StartAdd(w)
    \/ \E w \in Writers : Find(w)
    \/ \E w \in Writers : CheckHandler(w)
    \/ \E w \in Writers : BindHandler(w)
    \/ \E w \in Writers : CheckWildcard(w)
    \/ \E w \in Writers : LinkWildcard(w)
    \/ \E w \in Writers : Link(w)
    \/ \E w \in Writers : Count(w)
    \/ \E w \in Writers : Return(w)
    \/ RaceGet

SpecRace == Init /\ [][NextRace]_vars

(* ---------------- what a pattern means, for the properties ------------- *)

IsWildcardSeg(seg) == HasPrefix(seg, "*")
IsParamSeg(seg) == HasPrefix(seg, ":")
IsLiteralSeg(seg) == ~IsWildcardSeg(seg) /\ ~IsParamSeg(seg)

\* literal 0, parameter 1, wildcard 2
Rank(seg) == IF IsWildcardSeg(seg) THEN 2 ELSE IF IsParamSeg(seg) THEN 1 ELSE 0

\* a wildcard segment, if any, is the last one
WellFormed(P) == \A i \in 1..Len(P) : IsWildcardSeg(P[i]) => i = Len(P)

\* the first n segments of path q fit the first n segments of pattern P,
\* none of which is a wildcard
PrefixFits(P, q, n) ==
    /\ n <= Len(P)
    /\ n <= Len(q)
    /\ \A i \in 1..n : /\ ~IsWildcardSeg(P[i])
                       /\ IsLiteralSeg(P[i]) => q[i] = P[i]

\* pattern P matches path q
Matches(P, q) ==
    IF P # << >> /\ IsWildcardSeg(P[Len(P)])
    THEN Len(q) >= Len(P) /\ PrefixFits(P, q, Len(P) - 1)
    ELSE Len(q) = Len(P) /\ PrefixFits(P, q, Len(P))

\* the bindings pattern P gives path q, in pattern order
RECURSIVE BindingsFrom(_, _, _)
BindingsFrom(P, q, i) ==
    IF i > Len(P) THEN << >>
    ELSE IF IsWildcardSeg(P[i])
    THEN <<RouteParam(Tail(P[i]), SubSeq(q, i, Len(q)))>> \o BindingsFrom(P, q, i + 1)
    ELSE IF IsParamSeg(P[i])
    THEN <<RouteParam(Tail(P[i]), <<q[i]>>)>> \o BindingsFrom(P, q, i + 1)
    ELSE BindingsFrom(P, q, i + 1)

Bindings(P, q) == BindingsFrom(P, q, 1)

\* the patterns registered now, and the pattern a handler was registered for
Registered == { e[1] : e \in added }
PatternOf(handler) == (CHOOSE e \in added : e[2] = handler)[1]

IsGet == lastOp.op = "Get"
IsAdd == lastOp.op = "Add"

\* the positions of a Get result that carry the handler
Entries(routes, handler) == { i \in 1..Len(routes) : routes[i].Handler = handler }

(* ------------------------------ C1 ------------------------------------ *)

\* C1: a Get result holds exactly one entry for every registered pattern that
\* matches the query, none for a registered pattern that does not match, and
\* no entry whose handler is not registered.
C1_GetReturnsTheMatches ==
    IsGet =>
        /\ \A e \in added :
              Cardinality(Entries(lastOp.routes, e[2])) =
                  IF Matches(e[1], lastOp.path) THEN 1 ELSE 0
        /\ \A i \in 1..Len(lastOp.routes) :
              \E e \in added : lastOp.routes[i].Handler = e[2]

\* two parameter siblings and a wildcard at the same position all answer
C1_Witness ==
    /\ IsGet
    /\ lastOp.path = <<b>>
    /\ {<<px>>, <<py>>, <<ww>>} \subseteq Registered
    /\ Len(lastOp.routes) = 3

(* ------------------------------ C2 ------------------------------------ *)

\* C2: every route of a Get result carries the bindings of its own pattern:
\* one per parameter or wildcard segment, in pattern order, a parameter at
\* position i bound to the one-element list of the query's segment i.
C2_BindingsOfOwnPattern ==
    IsGet =>
        \A i \in 1..Len(lastOp.routes) :
            \E e \in added :
                /\ lastOp.routes[i].Handler = e[2]
                /\ lastOp.routes[i].Params = Bindings(e[1], lastOp.path)

(* ------------------------------ C3 ------------------------------------ *)

\* C3: a registered pattern with its wildcard at position i answers every
\* query of i+1 or more segments whose first i segments fit, with the
\* wildcard bound to the query from position i on; it does not answer a
\* query of exactly i segments.
C3_WildcardTakesTheRest ==
    IsGet =>
        \A e \in added :
            (e[1] # << >> /\ IsWildcardSeg(e[1][Len(e[1])])) =>
                LET P == e[1]
                    q == lastOp.path
                    n == Len(P) - 1
                IN  /\ (Len(q) >= n + 1 /\ PrefixFits(P, q, n)) =>
                          \E k \in 1..Len(lastOp.routes) :
                              /\ lastOp.routes[k].Handler = e[2]
                              /\ lastOp.routes[k].Params = Bindings(P, q)
                    /\ Len(q) = n => Entries(lastOp.routes, e[2]) = {}

(* ------------------------------ C4 ------------------------------------ *)

\* the first position at which two patterns differ
FirstDiff(P, Q) ==
    CHOOSE i \in 1..(Len(P) + 1) :
        /\ \A j \in 1..(i - 1) : j <= Len(Q) /\ P[j] = Q[j]
        /\ i > Len(P) \/ i > Len(Q) \/ P[i] # Q[i]

\* C4: of two routes in a Get result, the one whose pattern has the lower
\* kind (literal, then parameter, then wildcard) at the first position where
\* the two patterns differ comes first.
C4_PriorityOrder ==
    IsGet =>
        \A j, k \in 1..Len(lastOp.routes) :
            j < k =>
                LET P == PatternOf(lastOp.routes[j].Handler)
                    Q == PatternOf(lastOp.routes[k].Handler)
                    i == FirstDiff(P, Q)
                IN  /\ i <= Len(P)
                    /\ i <= Len(Q)
                    /\ Rank(P[i]) <= Rank(Q[i])

\* a literal, a parameter and a wildcard route answer the same query
C4_Witness ==
    /\ IsGet
    /\ lastOp.path = <<a>>
    /\ Registered = {<<a>>, <<px>>, <<ww>>}
    /\ Len(lastOp.routes) = 3
    /\ lastOp.routes[1].Handler = FirstHandler(<<a>>)
    /\ lastOp.routes[3].Handler = FirstHandler(<<ww>>)

(* ------------------------------ C5 ------------------------------------ *)

\* C5: a Get that follows a Get of the same path on the same tree returns
\* the same routes in the same order.
C5_SameQuerySameOrder ==
    [][(IsGet /\ lastOp'.op = "Get" /\ lastOp'.path = lastOp.path /\ heap' = heap)
           => lastOp'.routes = lastOp.routes]_vars

(* ------------------------------ C6 ------------------------------------ *)

\* C6: Size() is the number of Adds that returned no error less the number
\* of Deletes that returned no error.
C6_SizeCountsRoutes == Size(heap) = nAdded - nDeleted

(* ------------------------------ C7 ------------------------------------ *)

C8_MisplacedWildcardRejected ==
    [][(lastOp'.op = "Add" /\ ~WellFormed(lastOp'.path)) =>
           /\ lastOp'.err = ErrWildcardNotLast
           /\ lastOp'.nw = NilNode
           /\ Size(heap') = Size(heap)
           \* an identical tree answers alike; any other tree is asked
           /\ \/ heap' = heap
              \/ \A q \in Queries : GetResults(heap', q) = GetResults(heap, q)
      ]_vars

\* the wildcard sits below a literal that other routes already use
C8_Witness ==
    /\ IsAdd
    /\ lastOp.path = <<a, ww, b>>
    /\ lastOp.err = ErrWildcardNotLast
    /\ {<<a>>, <<a, b>>} \subseteq Registered

(* ------------------------------ C9 ------------------------------------ *)

\* C9: an Add of a pattern that ends in its only wildcard returns no error,
\* whatever wildcard siblings are there.
C9_WildcardSiblingsAccepted ==
    (IsAdd /\ lastOp.path # << >> /\ WellFormed(lastOp.path)
           /\ IsWildcardSeg(lastOp.path[Len(lastOp.path)]))
        => lastOp.err = NoError

(* ------------------------------ C10 ----------------------------------- *)

\* C10: a Delete of a registered pattern returns no error, lowers Size() by
\* one, takes the pattern's route out of every Get result and leaves the
\* other routes in them.
C10_DeleteRemovesTheRoute ==
    [][(lastOp'.op = "Delete" /\ lastOp'.path \in Registered) =>
           /\ lastOp'.err = NoError
           /\ Size(heap') = Size(heap) - 1
           /\ \A q \in Queries :
                  \A routes \in GetResults(heap', q) :
                      \A e \in added :
                          Cardinality(Entries(routes, e[2])) =
                              IF e[1] # lastOp'.path /\ Matches(e[1], q) THEN 1 ELSE 0
      ]_vars

(* ------------------------------ C11 ----------------------------------- *)

IsDelete == lastOp.op = "Delete"

\* the chain of nodes a pattern names: a node's address is the sequence of
\* stored segments that leads to it
ChainMissing(h, P) == P \notin DOMAIN h
ChainUnbound(h, P) == P \in DOMAIN h /\ h[P].handler = NilHandler

\* C11: a Delete of a path whose chain is missing or ends at a node without
\* handler returns an error and leaves the tree as it is, and the error for
\* a missing chain is not the error for a node without handler.
C11_DeleteTellsMissingFromUnbound ==
    [][lastOp'.op = "Delete" =>
           /\ (ChainMissing(heap, lastOp'.path) \/ ChainUnbound(heap, lastOp'.path)) =>
                  /\ lastOp'.err # NoError
                  /\ heap' = heap
           /\ (IsDelete /\ ChainMissing(heap, lastOp.path)
                        /\ ChainUnbound(heap, lastOp'.path)) =>
                  lastOp'.err # lastOp.err
      ]_vars

(* ------------------------------ C12 ----------------------------------- *)

\* a linked node other than the root with Size zero, no handler, no children
DeadNode(h, n) ==
    /\ n # root
    /\ h[n].nodeSize = 0
    /\ h[n].handler = NilHandler
    /\ Children(h, n) = {}

\* C12: a Delete of the only route under a literal or parameter node takes
\* the node out of its parent's children and leaves the parent's handler and
\* other children alone; no dead node stays linked after any call.
C12_DeletePrunes ==
    [][/\ (lastOp'.op = "Delete" /\ lastOp'.path \in Registered
             /\ lastOp'.path # << >>
             /\ ~IsWildcardSeg(lastOp'.path[Len(lastOp'.path)])
             /\ Children(heap, lastOp'.path) = {}) =>
              LET P == lastOp'.path
                  parent == heap[P].parent
              IN  /\ P \notin DOMAIN heap'
                  /\ parent \in DOMAIN heap'
                  /\ heap'[parent].handler = heap[parent].handler
                  /\ Children(heap', parent) = Children(heap, parent) \ {P}
       /\ \A n \in DOMAIN heap' : ~DeadNode(heap', n)
      ]_vars

(* ------------------------------ C13 ----------------------------------- *)

\* the handle k Parent() steps above nw, NilNode past the root
RECURSIVE Ancestor(_, _, _)
Ancestor(h, nw, k) ==
    IF k = 0 \/ nw = NilNode \/ nw \notin DOMAIN h
    THEN nw
    ELSE Ancestor(h, Parent(h, nw).nw, k - 1)

IsPrefix(P, Q) == Len(P) <= Len(Q) /\ SubSeq(Q, 1, Len(P)) = P

\* C13: the handle a successful Add(P) returned has the last segment of P as
\* PathName, reaches the root in exactly Len(P) Parent() steps, each with the
\* flag true, and its Path() is P; for the empty P it is the root; Parent()
\* of the root reports false.
C13_HandleLeadsBackToPattern ==
    /\ ~Parent(heap, Root).ok
    /\ \A e \in added :
          LET P == e[1]
              nw == e[3]
          IN  /\ nw \in DOMAIN heap
              /\ P = << >> => Equal(nw, Root)
              /\ P # << >> => PathName(heap, nw) = P[Len(P)]
              /\ \A k \in 0..(Len(P) - 1) :
                    LET up == Ancestor(heap, nw, k)
                    IN  up \in DOMAIN heap /\ Parent(heap, up).ok
              /\ Equal(Ancestor(heap, nw, Len(P)), Root)
              /\ Path(heap, nw) = P

C13_Witness ==
    /\ IsAdd /\ lastOp.err = NoError
    /\ lastOp.path = <<px, px, px, ww>>
    /\ Path(heap, lastOp.nw) = lastOp.path
    /\ << >> \in Registered

(* ------------------------------ C14 ----------------------------------- *)

\* C14: a node has one literal child per text and one parameter child per
\* name, and the handle of a registered pattern P is the ancestor, Len(S)
\* Parent() steps up, of the handle of every registered pattern P \o S.
C14_NodesAreReused ==
    /\ \A n \in DOMAIN heap :
          /\ \A c, d \in Children(heap, n) :
                (/\ heap[c].nodeType = heap[d].nodeType
                 /\ heap[c].nodeType # Wildcard
                 /\ heap[c].path = heap[d].path) => c = d
          /\ \A k \in DOMAIN heap[n].static_children :
                heap[heap[n].static_children[k]].path = k
          /\ \A k \in DOMAIN heap[n].params_children :
                heap[heap[n].params_children[k]].paramName = k
    /\ \A e1, e2 \in added :
          IsPrefix(e1[1], e2[1]) =>
              Equal(e1[3], Ancestor(heap, e2[3], Len(e2[1]) - Len(e1[1])))

\* the shorter pattern came in after the longer one
C14_Witness ==
    /\ IsAdd /\ lastOp.err = NoError /\ lastOp.path = <<a>>
    /\ lastOp.handler = FirstHandler(<<a>>)
    /\ \E e \in added : e[1] = <<a, b>> /\ Ancestor(heap, e[3], 1) = lastOp.nw
    /\ \E e \in added : e[1] = <<px, px, px, ww>>

(* ------------------------------ C15 ----------------------------------- *)

\* every registered pattern is made of literal segments only
LiteralOnly == \A P \in Registered : \A i \in 1..Len(P) : IsLiteralSeg(P[i])

HandlerOf(P) == (CHOOSE e \in added : e[1] = P)[2]

\* C15: in a tree of literal patterns only, Get of a registered pattern
\* returns one route, with the pattern's handler and no bindings, and Get of
\* any other path returns no route.
C15_LiteralTreeExactMatch ==
    (IsGet /\ LiteralOnly) =>
        IF lastOp.path \in Registered
        THEN lastOp.routes = <<[Handler |-> HandlerOf(lastOp.path), Params |-> << >>]>>
        ELSE lastOp.routes = << >>

C15_Witness ==
    /\ IsGet
    /\ Registered = {<< >>, <<a>>, <<a, b>>}
    /\ lastOp.path = <<a>>
    /\ lastOp.routes = <<[Handler |-> FirstHandler(<<a>>), Params |-> << >>]>>

(* ------------------------------ C19 ----------------------------------- *)

\* the positions of the bindings of ps whose key is name
Hits(ps, name) == { i \in 1..Len(ps) : ps[i].Key = name }

\* C19: Params.Get(name) returns the values of the first binding whose key is
\* name, with found true, also when later bindings carry the same key, and
\* the nil list with found false when no binding has the key.
C19_ParamsGetFirstBinding ==
    lastOp.op = "Params.Get" =>
        LET hits == Hits(lastOp.params, lastOp.name)
        IN  IF hits = {}
            THEN ~lastOp.found /\ lastOp.values = NilValues
            ELSE /\ lastOp.found
                 /\ lastOp.values =
                       lastOp.params[CHOOSE i \in hits : \A j \in hits : i <= j].Values

\* the key is bound twice, to different values, after a binding of another key
C19_Witness ==
    /\ lastOp.op = "Params.Get"
    /\ lastOp.params = <<RouteParam(<<"y">>, <<b>>), RouteParam(<<"x">>, <<a>>),
                         RouteParam(<<"x">>, <<b>>)>>
    /\ lastOp.name = <<"x">>
    /\ lastOp.found
    /\ lastOp.values = <<a>>

(* ------------------------------ C20 ----------------------------------- *)

\* the pattern has a parameter or wildcard segment without name
HasAnon(P) == \E i \in 1..Len(P) : P[i] \in {pe, we}

SamplePath(P) == [i \in 1..Len(P) |-> IF IsLiteralSeg(P[i]) THEN P[i] ELSE a]

\* the nodes a Get can return a route of
RouteNodes(h) == { n \in Reachable(h, root) : h[n].handler # NilHandler }

AllReturned == \A w \in Writers : calls[w] = Done

\* C16: when the Adds of two goroutines, for two different non-empty
\* patterns, have both returned without error, Get finds both routes and
\* the tree's Size is the number of routes Get can reach.
C16_RacingAddsBothKept ==
    (/\ AllReturned
     /\ Cardinality(added) = Cardinality(Writers)
     /\ \A e1, e2 \in added : e1 # e2 => e1[1] # e2[1]
     /\ << >> \notin Registered) =>
        /\ \A e \in added :
              \A routes \in GetResults(heap, SamplePath(e[1])) :
                  \E i \in 1..Len(routes) : routes[i].Handler = e[2]
        /\ Size(heap) = Cardinality(RouteNodes(heap))

(* ------------------------------ C17 ----------------------------------- *)

\* the routes linked below node n
RoutesBelow(h, n) == Cardinality(RouteNodes(h) \cap (Reachable(h, n) \ {n}))

\* C17: at every point of every interleaving, the Size of every node the
\* root reaches is the number of routes linked below the node.
C17_SizeAgreesWithLinks ==
    \A n \in Reachable(heap, root) : heap[n].nodeSize = RoutesBelow(heap, n)

(* ------------------------------ C18 ----------------------------------- *)

\* the fields the composite literal of the node's creation sets
Initialised(h, n) ==
    /\ h[n].parent # NilNode
    /\ h[n].path # << >>
    /\ h[n].nodeType = Rank(h[n].path)
    /\ h[n].paramName = IF IsLiteralSeg(h[n].path) THEN << >> ELSE Tail(h[n].path)
    /\ h[n].isWildcard = IsWildcardSeg(h[n].path)

\* C18: every node the root reaches has its kind, text, parameter name and
\* parent set, and every route a Get returns while an Add is in flight is a
\* whole one: it is the route of a pattern that matches the query, with the
\* bindings of that pattern.
C18_NoHalfMadeNodeSeen ==
    /\ \A n \in Reachable(heap, root) \ {root} : Initialised(heap, n)
    /\ IsGet =>
           \A i \in 1..Len(lastOp.routes) :
               LET P == Tail(lastOp.routes[i].Handler)
               IN  /\ Matches(P, lastOp.path)
                   /\ lastOp.routes[i].Params = Bindings(P, lastOp.path)

(* ------------------------------ C21 ----------------------------------- *)

\* the handler-bearing nodes in the subtree of n, n included
RoutesIn(h, n) == Cardinality({ m \in Reachable(h, n) : h[m].handler # NilHandler })

\* C21: in every state, the Size of the handle of every node the root
\* reaches, leaves and wildcard nodes included, is the number of
\* handler-bearing nodes in the node's subtree, the node itself counted.
C21_NodeSizeCountsSubtree ==
    \A n \in Reachable(heap, root) : NodeSize(heap, n) = RoutesIn(heap, n)

(* ------------------------------ C22 ----------------------------------- *)

EndsInWildcard(P) == P # << >> /\ IsWildcardSeg(P[Len(P)])

\* C22 as stated: in a Get result no route whose pattern ends in a wildcard
\* comes before a route whose pattern has no wildcard segment.
C22_WildcardsLastInResult ==
    IsGet =>
        \A j, k \in 1..Len(lastOp.routes) :
            j < k =>
                ~(/\ EndsInWildcard(PatternOf(lastOp.routes[j].Handler))
                  /\ ~EndsInWildcard(PatternOf(lastOp.routes[k].Handler)))

\* C22 amended: wildcard matches come last among the matches found below one
\* node: a route whose pattern ends in a wildcard child of a node is followed
\* only by routes of wildcard children of that node, among the routes whose
\* patterns go through the node.
C22_WildcardsLastAtTheirNode ==
    IsGet =>
        \A j, k \in 1..Len(lastOp.routes) :
            j < k =>
                LET P == PatternOf(lastOp.routes[j].Handler)
                    Q == PatternOf(lastOp.routes[k].Handler)
                IN  (/\ EndsInWildcard(P)
                     /\ Len(Q) >= Len(P) - 1
                     /\ SubSeq(Q, 1, Len(P) - 1) = SubSeq(P, 1, Len(P) - 1)) =>
                        /\ Len(Q) = Len(P)
                        /\ IsWildcardSeg(Q[Len(P)])

\* the wildcard route below the literal child comes before the parameter
\* route, the wildcard route below the parameter chain after it
C22_Witness ==
    /\ IsGet
    /\ lastOp.path = <<a, b, a, b>>
    /\ Len(lastOp.routes) = 3
    /\ lastOp.routes[1].Handler = FirstHandler(<<a, ww>>)
    /\ lastOp.routes[2].Handler = FirstHandler(<<px, px, px, py>>)
    /\ lastOp.routes[3].Handler = FirstHandler(<<px, px, px, ww>>)

(* ------------------------------ C23 ----------------------------------- *)

WildcardNodes(h) ==
    { n \in Reachable(h, root) : h[n].nodeType = Wildcard \/ h[n].isWildcard }
    \cup UNION { { h[n].wildcard_children[k] : k \in DOMAIN h[n].wildcard_children } :
                 n \in Reachable(h, root) }

\* C23: in every state a wildcard node has no children, is the node of the
\* last segment of a registered pattern, that segment being its text, and
\* carries the handler registered for that pattern.
C23_WildcardNodesAreTerminal ==
    \A n \in WildcardNodes(heap) :
        /\ heap[n].nodeType = Wildcard
        /\ Children(heap, n) = {}
        /\ \E e \in added :
              /\ e[3] = n
              /\ EndsInWildcard(e[1])
              /\ Path(heap, n) = e[1]
              /\ heap[n].handler = e[2]

C23_Witness ==
    /\ IsAdd /\ lastOp.err = NoError
    /\ lastOp.path = <<px, px, px, wv>>
    /\ lastOp.nw \in WildcardNodes(heap)
    /\ heap[lastOp.nw].handler = lastOp.handler
    /\ Cardinality(WildcardNodes(heap)) = 3

(* ------------------------------ C24 ----------------------------------- *)

\* C24: an Add that returns an error leaves the nodes the root reaches, their
\* handlers, children and Sizes as they were, and every node but the root
\* still has a handler-bearing node in its subtree.
C24_FailedAddChangesNothing ==
    [][(lastOp'.op = "Add" /\ lastOp'.err # NoError) =>
           /\ Reachable(heap', root) = Reachable(heap, root)
           /\ \A n \in Reachable(heap, root) : heap'[n] = heap[n]
           /\ \A n \in Reachable(heap', root) \ {root} : RoutesIn(heap', n) >= 1
      ]_vars

\* the misplaced wildcard lies behind a literal the tree does not have
C24_Witness ==
    /\ IsAdd
    /\ lastOp.err = ErrWildcardNotLast
    /\ lastOp.path = <<a, ww, b>>
    /\ <<a>> \notin DOMAIN heap
    /\ Registered = {<<px>>, <<ww>>}

(* ------------------------------ C25 ----------------------------------- *)

\* C25: a Get, whether it matches or not, returns a list of routes and leaves
\* every node with its children, handler and Size, so that Size() and every
\* Get give afterwards what they gave before.
C25_GetChangesNothing ==
    [][lastOp'.op = "Get" =>
           /\ DOMAIN lastOp'.routes = 1..Len(lastOp'.routes)
           /\ DOMAIN heap' = DOMAIN heap
           /\ \A n \in DOMAIN heap :
                 /\ heap'[n].static_children = heap[n].static_children
                 /\ heap'[n].params_children = heap[n].params_children
                 /\ heap'[n].wildcard_children = heap[n].wildcard_children
                 /\ heap'[n].handler = heap[n].handler
                 /\ heap'[n].nodeSize = heap[n].nodeSize
           /\ Size(heap') = Size(heap)
           /\ \/ heap' = heap
              \/ \A q \in Queries : GetResults(heap', q) = GetResults(heap, q)
      ]_vars

\* a query that matches nothing, on a tree that has routes
C25_Witness ==
    /\ IsGet
    /\ lastOp.path = <<b, a>>
    /\ lastOp.routes = << >>
    /\ Registered = {<<a>>, <<a, b>>, << >>}

(* ------------------------------ C26 ----------------------------------- *)

\* C26: of the Adds of two goroutines for one pattern, with different
\* handlers, at most one returns without error, and once both have returned
\* Get returns the handler of the one that did, not the other's.
C26_OneHandlerPerPattern ==
    /\ \A e1, e2 \in added : e1[1] = e2[1] => e1 = e2
    /\ (AllReturned /\ lastOp.op = "Add" /\ lastOp.err = ErrDuplicate) =>
           \A e \in added :
               e[1] = lastOp.path =>
                   \A routes \in GetResults(heap, SamplePath(e[1])) :
                       /\ \E i \in 1..Len(routes) : routes[i].Handler = e[2]
                       /\ \A i \in 1..Len(routes) : routes[i].Handler # lastOp.handler

====
